---- MODULE Spec2Model ----
(***************************************************************************)
(* Admin user/role management routes: the user list loader, the            *)
(* add-new-users loader/action (with the create-role / delete-role         *)
(* intents), the earlier add-new-users action without role intents, and    *)
(* the edit-user loader/action, all running against one Prisma store.      *)
(*                                                                         *)
(* A request is handled as one step (requests do not overlap); the         *)
(* response stays in `last` until the route component consumes it.         *)
(***************************************************************************)
EXTENDS Integers, Sequences, FiniteSets, TLC

\* ---------------------------------------------------------------- bounds
MaxUsers == 2

\* ------------------------------------------------------- value universes
null == "<null>"
undefined == "<undefined>"

EmailInputs == {null, "a@b.com", "A@B.com", "c@d.com"}
UsernameInputs == {"bob", "Bob", "amy"}
NameInputs == {"", "Bob B"}
PasswordInputs == {"short", "validpass123"}
RoleNameInputs == {null, "", "admin", "Admin", "user", "editor", "EDITOR"}
\* The values of the `roles` entries of a submitted form, in order.
RolesInputs == {<<>>, <<"user">>, <<"admin">>, <<"editor">>,
                <<"admin", "editor">>}
UserIds == 1..(MaxUsers + 1)
Anonymous == 0
\* Sessions: none, the seeded administrator's, the first created user's.
Callers == {Anonymous, 1, 2}

Range(s) == {s[i] : i \in 1..Len(s)}

\* ------------------------------------------------------ String.prototype
toLowerCase(s) ==
    CASE s = "A@B.com" -> "a@b.com"
      [] s = "Bob" -> "bob"
      [] s = "Admin" -> "admin"
      [] s = "EDITOR" -> "editor"
      [] OTHER -> s

\* ----------------------------------------------------------------- state
VARIABLES users, passwords, roles, userRoles, nextId, last, inflight

vars == <<users, passwords, roles, userRoles, nextId, last, inflight>>

store == [users |-> users, passwords |-> passwords, roles |-> roles,
          userRoles |-> userRoles, nextId |-> nextId]

EmptyStore == [users |-> {}, passwords |-> {}, roles |-> {},
               userRoles |-> {}, nextId |-> 0]

NoForm == [intent |-> null, roleName |-> null, email |-> null,
           username |-> null, password |-> null, name |-> null,
           roles |-> <<>>]

NoResult == [kind |-> "none", status |-> 0, errors |-> {}, formType |-> "",
             to |-> ""]

Idle == [handler |-> "idle", caller |-> Anonymous, form |-> NoForm,
         userId |-> 0, pre |-> EmptyStore, calls |-> <<>>,
         result |-> NoResult]

\* ------------------------------------------------------------- responses
Errors(errs) == [NoResult EXCEPT !.kind = "errors", !.status = 400,
                                 !.errors = errs]
Success(formType) == [NoResult EXCEPT !.kind = "success",
                                      !.formType = formType]
redirect(to) == [NoResult EXCEPT !.kind = "redirect", !.status = 302,
                                 !.to = to]
ReturnsUndefined == [NoResult EXCEPT !.kind = "undefined"]
Data == [NoResult EXCEPT !.kind = "data", !.status = 200]
NotFound == [NoResult EXCEPT !.kind = "thrown-response", !.status = 404]
AuthorizationFailure == [NoResult EXCEPT !.kind = "authorization-failure",
                                         !.status = 403]
UnhandledFault == [NoResult EXCEPT !.kind = "unhandled-fault",
                                   !.status = 500]

\* ---------------------------------------------------------- collaborators
\* requireUserWithRole(request, 'admin'): the session's user must hold the role.
requireUserWithRole(s, caller, role) ==
    /\ \E u \in s.users : u.id = caller
    /\ <<caller, role>> \in s.userRoles

\* getPasswordHash(password): an opaque one-way digest, never the plaintext.
getPasswordHash(password) ==
    CASE password = "validpass123" -> "$2a$10$digest-of-validpass123"
      [] password = "short" -> "$2a$10$digest-of-short"
      [] OTHER -> "$2a$10$digest"

\* EmailSchema / UsernameSchema / PasswordSchema: the shared field rules.
EmailSchema(v) == v \in {"a@b.com", "A@B.com", "c@d.com"}
UsernameSchema(v) == v \in {"bob", "Bob", "amy"}
PasswordSchema(v) == v \in {"validpass123"}

\* ------------------------------------------------------------- FormData
formData_get(form, key) == form[key]
formData_getAll(form, key) == form[key]

\* ------------------------------------------------------------------ zod
\* z.array(z.string()).default(['user']): the default replaces undefined only.
ZodArrayDefault(v, dflt) == IF v = undefined THEN dflt ELSE v

NameRule(v) == v # null /\ v # undefined /\ v # ""

\* ------------------------------------------------------- prisma (store)
\* Each call yields [ok, st]: ok = FALSE is a thrown PrismaClientKnownRequestError
\* and leaves the store as it was.
user_findUnique_email(s, email) == {u \in s.users : u.email = email}
user_findUnique_username(s, username) ==
    {u \in s.users : u.username = username}
user_findUnique_id(s, id) == {u \in s.users : u.id = id}
user_findFirst_email_not(s, email, id) ==
    {u \in s.users : u.email = email /\ u.id # id}
user_findFirst_username_not(s, username, id) ==
    {u \in s.users : u.username = username /\ u.id # id}
role_findUnique(s, name) == {r \in s.roles : r = name}

user_findMany(s) ==
    {[id |-> u.id, email |-> u.email, username |-> u.username,
      name |-> u.name,
      roles |-> {p[2] : p \in {q \in s.userRoles : q[1] = u.id}}]
        : u \in s.users}

\* Variant: the store accepts duplicate emails and usernames.
user_uniqueViolated_Off(s, email, username, id) == FALSE

\* The unique constraints of User.email and User.username, as the store
\* enforces them on a write of the row `id`.
user_uniqueViolated(s, email, username, id) ==
    \E u \in s.users :
        u.id # id /\ (u.email = email \/ u.username = username)

user_create(s, data) ==
    IF \/ user_uniqueViolated(s, data.email, data.username, s.nextId)
       \/ \E r \in Range(data.roles) : r \notin s.roles
    THEN [ok |-> FALSE, st |-> s]
    ELSE [ok |-> TRUE,
          st |-> [s EXCEPT
            !.users = @ \cup {[id |-> s.nextId, email |-> data.email,
                               username |-> data.username,
                               name |-> data.name]},
            !.passwords = @ \cup {[userId |-> s.nextId,
                                   hash |-> data.hash]},
            !.userRoles = @ \cup {<<s.nextId, r>> : r \in Range(data.roles)},
            !.nextId = @ + 1]]

user_update(s, id, data) ==
    IF \/ user_findUnique_id(s, id) = {}
       \/ user_uniqueViolated(s, data.email, data.username, id)
       \/ \E r \in Range(data.connect) : r \notin s.roles
       \/ data.set # undefined /\ \E r \in Range(data.set) : r \notin s.roles
    THEN [ok |-> FALSE, st |-> s]
    ELSE [ok |-> TRUE,
          st |-> [s EXCEPT
            !.users = {u \in @ : u.id # id}
                        \cup {[id |-> id, email |-> data.email,
                               username |-> data.username,
                               name |-> data.name]},
            !.userRoles =
                (IF data.set = undefined
                     THEN @
                     ELSE {p \in @ : p[1] # id}
                            \cup {<<id, r>> : r \in Range(data.set)})
                    \cup {<<id, r>> : r \in Range(data.connect)}]]

role_create(s, name) ==
    IF role_findUnique(s, name) # {}
    THEN [ok |-> FALSE, st |-> s]
    ELSE [ok |-> TRUE, st |-> [s EXCEPT !.roles = @ \cup {name}]]

\* Deleting a role row removes its rows of the implicit Role-User join table.
role_delete(s, name) ==
    IF role_findUnique(s, name) = {}
    THEN [ok |-> FALSE, st |-> s]
    ELSE [ok |-> TRUE,
          st |-> [s EXCEPT !.roles = @ \ {name},
                           !.userRoles = {p \in @ : p[2] # name}]]

Outcome(s, calls, result) == [st |-> s, calls |-> calls, result |-> result]

\* ------------------------------------------------- user list: loader
\* Variant: the list is read without the authorization check.
AllUsers_loader_Ungated(s, caller) ==
    Outcome(s, <<"user.findMany">>, Data)

AllUsers_loader(s, caller) ==
    IF ~requireUserWithRole(s, caller, "admin")
    THEN Outcome(s, <<>>, AuthorizationFailure)
    ELSE Outcome(s, <<"user.findMany">>, Data)

\* --------------------------------------------- add-new-users: schema
FieldError(ok, field, message) ==
    IF ok THEN {} ELSE {<<field, message>>}

AddNewUserSchema(rawData) ==
    LET fieldErrors ==
            FieldError(EmailSchema(rawData.email), "email", "Email is invalid")
            \cup FieldError(UsernameSchema(rawData.username), "username",
                            "Username is invalid")
            \cup FieldError(PasswordSchema(rawData.password), "password",
                            "Password is too short")
            \cup FieldError(NameRule(rawData.name), "name", "Name is required")
    IN [success |-> fieldErrors = {},
        fieldErrors |-> fieldErrors,
        data |-> [email |-> rawData.email, username |-> rawData.username,
                  password |-> rawData.password, name |-> rawData.name,
                  roles |-> ZodArrayDefault(rawData.roles, <<"user">>)]]

AddNewUser_rawData(form) ==
    [email |-> formData_get(form, "email"),
     username |-> formData_get(form, "username"),
     password |-> formData_get(form, "password"),
     name |-> formData_get(form, "name"),
     roles |-> formData_getAll(form, "roles")]

\* Variant: the email lookup uses the value as submitted.
AddNewUser_emailWhere_Raw(email) == email

\* The where-clauses of the two uniqueness lookups.
AddNewUser_emailWhere(email) == toLowerCase(email)
AddNewUser_usernameWhere(username) == toLowerCase(username)

\* Variant: the credential holds the password as submitted.
AddNewUser_createData_Plaintext(data) ==
    [email |-> toLowerCase(data.email),
     username |-> toLowerCase(data.username),
     name |-> data.name,
     hash |-> data.password,
     roles |-> data.roles]

\* The data object handed to prisma.user.create.
AddNewUser_createData(data) ==
    [email |-> toLowerCase(data.email),
     username |-> toLowerCase(data.username),
     name |-> data.name,
     hash |-> getPasswordHash(data.password),
     roles |-> data.roles]

\* User creation up to and including prisma.user.create; `onCreated` is what
\* the caller does after the insert.
AddNewUser_createUser(s, form, onCreated) ==
    LET result == AddNewUserSchema(AddNewUser_rawData(form))
        data == result.data
    IN IF ~result.success
       THEN Outcome(s, <<>>, Errors(result.fieldErrors))
       ELSE IF user_findUnique_email(s, AddNewUser_emailWhere(data.email)) # {}
       THEN Outcome(s, <<"user.findUnique(email)">>,
                    Errors({<<"email",
                              "A user with this email already exists">>}))
       ELSE IF user_findUnique_username(
                   s, AddNewUser_usernameWhere(data.username)) # {}
       THEN Outcome(s, <<"user.findUnique(email)",
                         "user.findUnique(username)">>,
                    Errors({<<"username",
                              "A user with this username already exists">>}))
       ELSE LET created == user_create(s, AddNewUser_createData(data))
                calls == <<"user.findUnique(email)",
                           "user.findUnique(username)", "user.create">>
            IN IF created.ok
               THEN Outcome(created.st, calls, onCreated)
               ELSE Outcome(s, calls, UnhandledFault)

\* ------------------------------------ add-new-users: role intents
\* Variant: the role name is kept as submitted.
AddNewUser_createRoleName_Raw(form) ==
    LET v == formData_get(form, "roleName")
    IN IF v = null THEN undefined ELSE v

AddNewUser_createRoleName(form) ==
    LET v == formData_get(form, "roleName")
    IN IF v = null THEN undefined ELSE toLowerCase(v)

AddNewUser_createRole(s, form) ==
    LET roleName == AddNewUser_createRoleName(form)
    IN IF roleName = undefined \/ roleName = ""
       THEN Outcome(s, <<>>, Errors({<<"role", "Role name is required">>}))
       ELSE IF role_findUnique(s, roleName) # {}
       THEN Outcome(s, <<"role.findUnique">>,
                    Errors({<<"role", "This role already exists">>}))
       ELSE LET created == role_create(s, roleName)
                calls == <<"role.findUnique", "role.create">>
            IN IF created.ok
               THEN Outcome(created.st, calls, Success("role"))
               ELSE Outcome(s, calls, UnhandledFault)

\* Variant: only `admin` is guarded.
AddNewUser_isSystemRole_AdminOnly(roleName) == roleName = "admin"

AddNewUser_isSystemRole(roleName) == roleName = "admin" \/ roleName = "user"

\* Variant: the role is deleted before the system-role guard is consulted.
AddNewUser_deleteRole_DeleteFirst(s, form) ==
    LET v == formData_get(form, "roleName")
        roleName == IF v = null THEN undefined ELSE v
    IN IF roleName = undefined \/ roleName = ""
       THEN Outcome(s, <<>>, Errors({<<"role", "Role name is required">>}))
       ELSE LET deleted == role_delete(s, roleName)
            IN IF ~deleted.ok
               THEN Outcome(s, <<"role.delete">>, UnhandledFault)
               ELSE IF AddNewUser_isSystemRole(roleName)
               THEN Outcome(deleted.st, <<"role.delete">>,
                            Errors({<<"role", "Cannot delete system roles">>}))
               ELSE Outcome(deleted.st, <<"role.delete">>,
                            Success("delete-role"))

AddNewUser_deleteRole(s, form) ==
    LET v == formData_get(form, "roleName")
        roleName == IF v = null THEN undefined ELSE v
    IN IF roleName = undefined \/ roleName = ""
       THEN Outcome(s, <<>>, Errors({<<"role", "Role name is required">>}))
       ELSE IF AddNewUser_isSystemRole(roleName)
       THEN Outcome(s, <<>>, Errors({<<"role", "Cannot delete system roles">>}))
       ELSE LET deleted == role_delete(s, roleName)
            IN IF deleted.ok
               THEN Outcome(deleted.st, <<"role.delete">>,
                            Success("delete-role"))
               ELSE Outcome(s, <<"role.delete">>, UnhandledFault)

\* ------------------------------------- add-new-users: loader, action
AddNewUser_loader(s, caller) ==
    IF ~requireUserWithRole(s, caller, "admin")
    THEN Outcome(s, <<>>, AuthorizationFailure)
    ELSE Outcome(s, <<"role.findMany">>, Data)

\* `redirect(...)` is evaluated and dropped; the function falls off its end.
AddNewUser_action(s, caller, form) ==
    IF ~requireUserWithRole(s, caller, "admin")
    THEN Outcome(s, <<>>, AuthorizationFailure)
    ELSE LET intent == formData_get(form, "intent")
         IN IF intent = "create-role" THEN AddNewUser_createRole(s, form)
            ELSE IF intent = "delete-role" THEN AddNewUser_deleteRole(s, form)
            ELSE AddNewUser_createUser(s, form, ReturnsUndefined)

\* ------------------- add-new-users without role intents: loader, action
AddNewUserPlain_loader(s, caller) ==
    IF ~requireUserWithRole(s, caller, "admin")
    THEN Outcome(s, <<>>, AuthorizationFailure)
    ELSE Outcome(s, <<>>, Data)

AddNewUserPlain_action(s, caller, form) ==
    IF ~requireUserWithRole(s, caller, "admin")
    THEN Outcome(s, <<>>, AuthorizationFailure)
    ELSE AddNewUser_createUser(
             s, form, redirect("/admin/successful-user-created"))

\* ------------------------------------------- edit user: loader, action
EditUserSchema(rawData) ==
    LET fieldErrors ==
            FieldError(EmailSchema(rawData.email), "email", "Email is invalid")
            \cup FieldError(UsernameSchema(rawData.username), "username",
                            "Username is invalid")
            \cup FieldError(NameRule(rawData.name), "name", "Name is required")
    IN [success |-> fieldErrors = {},
        fieldErrors |-> fieldErrors,
        data |-> [email |-> rawData.email, username |-> rawData.username,
                  name |-> rawData.name,
                  roles |-> ZodArrayDefault(rawData.roles, <<"user">>)]]

EditUser_rawData(form) ==
    [email |-> formData_get(form, "email"),
     username |-> formData_get(form, "username"),
     name |-> formData_get(form, "name"),
     roles |-> formData_getAll(form, "roles")]

EditUser_emailWhere(email) == toLowerCase(email)
EditUser_usernameWhere(username) == toLowerCase(username)

\* Variant: the email is written as submitted.
EditUser_updateData_RawEmail(data) ==
    [email |-> data.email,
     username |-> toLowerCase(data.username),
     name |-> data.name,
     set |-> <<>>,
     connect |-> data.roles]

\* Variant: roles are connected without clearing the current ones.
EditUser_updateData_NoSet(data) ==
    [email |-> toLowerCase(data.email),
     username |-> toLowerCase(data.username),
     name |-> data.name,
     set |-> undefined,
     connect |-> data.roles]

\* The data object handed to prisma.user.update.
EditUser_updateData(data) ==
    [email |-> toLowerCase(data.email),
     username |-> toLowerCase(data.username),
     name |-> data.name,
     set |-> <<>>,
     connect |-> data.roles]

EditUser_loader(s, caller, userId) ==
    IF ~requireUserWithRole(s, caller, "admin")
    THEN Outcome(s, <<>>, AuthorizationFailure)
    ELSE IF user_findUnique_id(s, userId) = {}
    THEN Outcome(s, <<"role.findMany", "user.findUnique(id)">>, NotFound)
    ELSE Outcome(s, <<"role.findMany", "user.findUnique(id)">>, Data)

\* Variant: the username lookup runs before the email lookup.
EditUser_action_UsernameFirst(s, caller, userId, form) ==
    IF ~requireUserWithRole(s, caller, "admin")
    THEN Outcome(s, <<>>, AuthorizationFailure)
    ELSE
    LET result == EditUserSchema(EditUser_rawData(form))
        data == result.data
    IN IF ~result.success
       THEN Outcome(s, <<>>, Errors(result.fieldErrors))
       ELSE IF user_findFirst_username_not(
                   s, EditUser_usernameWhere(data.username), userId) # {}
       THEN Outcome(s, <<"user.findFirst(username)">>,
                    Errors({<<"username", "This username is already taken">>}))
       ELSE IF user_findFirst_email_not(
                   s, EditUser_emailWhere(data.email), userId) # {}
       THEN Outcome(s, <<"user.findFirst(username)",
                         "user.findFirst(email)">>,
                    Errors({<<"email", "This email is already taken">>}))
       ELSE LET updated == user_update(s, userId, EditUser_updateData(data))
                calls == <<"user.findFirst(username)",
                           "user.findFirst(email)", "user.update">>
            IN IF updated.ok
               THEN Outcome(updated.st, calls, redirect("/admin/all-users"))
               ELSE Outcome(s, calls, UnhandledFault)

EditUser_action(s, caller, userId, form) ==
    IF ~requireUserWithRole(s, caller, "admin")
    THEN Outcome(s, <<>>, AuthorizationFailure)
    ELSE
    LET result == EditUserSchema(EditUser_rawData(form))
        data == result.data
    IN IF ~result.success
       THEN Outcome(s, <<>>, Errors(result.fieldErrors))
       ELSE IF user_findFirst_email_not(
                   s, EditUser_emailWhere(data.email), userId) # {}
       THEN Outcome(s, <<"user.findFirst(email)">>,
                    Errors({<<"email", "This email is already taken">>}))
       ELSE IF user_findFirst_username_not(
                   s, EditUser_usernameWhere(data.username), userId) # {}
       THEN Outcome(s, <<"user.findFirst(email)",
                         "user.findFirst(username)">>,
                    Errors({<<"username", "This username is already taken">>}))
       ELSE LET updated == user_update(s, userId, EditUser_updateData(data))
                calls == <<"user.findFirst(email)",
                           "user.findFirst(username)", "user.update">>
            IN IF updated.ok
               THEN Outcome(updated.st, calls, redirect("/admin/all-users"))
               ELSE Outcome(s, calls, UnhandledFault)

\* ------------------------------------------------------ request inputs
RoleForms ==
    {[NoForm EXCEPT !.intent = i, !.roleName = r]
        : i \in {"create-role", "delete-role"}, r \in RoleNameInputs}

CreateUserForms ==
    {[NoForm EXCEPT !.email = e, !.username = u, !.password = p,
                    !.name = n, !.roles = rs]
        : e \in EmailInputs, u \in UsernameInputs, p \in PasswordInputs,
          n \in NameInputs, rs \in RolesInputs}

EditUserForms ==
    {[NoForm EXCEPT !.email = e, !.username = u, !.name = n, !.roles = rs]
        : e \in EmailInputs, u \in UsernameInputs,
          n \in NameInputs, rs \in RolesInputs}

\* Two creation requests in flight at once, each at one of its awaits.
Requests == {"first", "second"}

NotStarted == [pc |-> "start", form |-> NoForm, calls |-> <<>>,
               result |-> NoResult]

RaceForms ==
    {f \in CreateUserForms :
        /\ f.password = "validpass123"
        /\ f.name = "Bob B"
        /\ f.roles \in {<<>>, <<"user">>}}

\* ----------------------------------------------------------------- Init
\* The seeded store: the roles `admin` and `user`, and one administrator.
Init ==
    /\ users = {[id |-> 1, email |-> "c@d.com", username |-> "amy",
                 name |-> "Amy A"]}
    /\ passwords = {[userId |-> 1, hash |-> getPasswordHash("validpass123")]}
    /\ roles = {"admin", "user"}
    /\ userRoles = {<<1, "admin">>, <<1, "user">>}
    /\ nextId = 2
    /\ last = Idle
    /\ inflight = [r \in Requests |-> NotStarted]

\* -------------------------------------------------------------- actions
\* User rows are capped at MaxUsers: an insert beyond it is not taken.
Respond(handler, caller, form, userId, out) ==
    /\ Cardinality(out.st.users) <= MaxUsers
    /\ users' = out.st.users
    /\ passwords' = out.st.passwords
    /\ roles' = out.st.roles
    /\ userRoles' = out.st.userRoles
    /\ nextId' = out.st.nextId
    /\ last' = [handler |-> handler, caller |-> caller, form |-> form,
                userId |-> userId, pre |-> store, calls |-> out.calls,
                result |-> out.result]
    /\ UNCHANGED inflight

\* The form is read after the authorization check only.
FormRead(caller, form) ==
    IF requireUserWithRole(store, caller, "admin") THEN form ELSE NoForm

ListUsers ==
    /\ last = Idle
    /\ \E caller \in Callers :
        Respond("all-users.loader", caller, NoForm, 0,
                AllUsers_loader(store, caller))

AddNewUserLoad ==
    /\ last = Idle
    /\ \E caller \in Callers :
        Respond("add-new-users.loader", caller, NoForm, 0,
                AddNewUser_loader(store, caller))

AddNewUserSubmit ==
    /\ last = Idle
    /\ \E caller \in Callers, form \in RoleForms \cup CreateUserForms :
        /\ Respond("add-new-users.action", caller, FormRead(caller, form), 0,
                   AddNewUser_action(store, caller, form))

AddNewUserPlainLoad ==
    /\ last = Idle
    /\ \E caller \in Callers :
        Respond("add-new-users-plain.loader", caller, NoForm, 0,
                AddNewUserPlain_loader(store, caller))

AddNewUserPlainSubmit ==
    /\ last = Idle
    /\ \E caller \in Callers, form \in CreateUserForms :
        Respond("add-new-users-plain.action", caller, FormRead(caller, form),
                0, AddNewUserPlain_action(store, caller, form))

EditUserLoad ==
    /\ last = Idle
    /\ \E caller \in Callers, userId \in UserIds :
        Respond("edit-user.loader", caller, NoForm, userId,
                EditUser_loader(store, caller, userId))

EditUserSubmit ==
    /\ last = Idle
    /\ \E caller \in Callers, userId \in UserIds, form \in EditUserForms :
        Respond("edit-user.action", caller, FormRead(caller, form), userId,
                EditUser_action(store, caller, userId, form))

\* The route component consumes the loader/action data; the next request
\* starts from there.
Render ==
    /\ last # Idle
    /\ last' = Idle
    /\ UNCHANGED <<users, passwords, roles, userRoles, nextId, inflight>>

Next ==
    \/ ListUsers
    \/ AddNewUserLoad
    \/ AddNewUserSubmit
    \/ AddNewUserPlainLoad
    \/ AddNewUserPlainSubmit
    \/ EditUserLoad
    \/ EditUserSubmit
    \/ Render

Spec == Init /\ [][Next]_vars

\* ------------------------------------- overlapping creation requests
\* The add-new-users action of the seeded administrator, one await at a
\* time: gate and validation, email lookup, username lookup, password hash,
\* insert.  Other requests interleave between the steps.
StoreUnchangedStep == UNCHANGED <<users, passwords, roles, userRoles, nextId>>

Step(r, pc, call, result) ==
    inflight' = [inflight EXCEPT
        ![r].pc = pc,
        ![r].calls = IF call = "" THEN @ ELSE Append(@, call),
        ![r].result = result]

RaceStart(r) ==
    /\ inflight[r].pc = "start"
    /\ requireUserWithRole(store, 1, "admin")
    /\ \E form \in RaceForms :
        LET result == AddNewUserSchema(AddNewUser_rawData(form))
        IN inflight' = [inflight EXCEPT
             ![r].form = form,
             ![r].pc = IF result.success THEN "emailLookup" ELSE "done",
             ![r].result = IF result.success THEN NoResult
                           ELSE Errors(result.fieldErrors)]
    /\ StoreUnchangedStep
    /\ UNCHANGED last

RaceEmailLookup(r) ==
    /\ inflight[r].pc = "emailLookup"
    /\ LET data == AddNewUserSchema(AddNewUser_rawData(inflight[r].form)).data
       IN IF user_findUnique_email(
                 store, AddNewUser_emailWhere(data.email)) # {}
          THEN Step(r, "done", "user.findUnique(email)",
                    Errors({<<"email",
                              "A user with this email already exists">>}))
          ELSE Step(r, "usernameLookup", "user.findUnique(email)", NoResult)
    /\ StoreUnchangedStep
    /\ UNCHANGED last

RaceUsernameLookup(r) ==
    /\ inflight[r].pc = "usernameLookup"
    /\ LET data == AddNewUserSchema(AddNewUser_rawData(inflight[r].form)).data
       IN IF user_findUnique_username(
                 store, AddNewUser_usernameWhere(data.username)) # {}
          THEN Step(r, "done", "user.findUnique(username)",
                    Errors({<<"username",
                              "A user with this username already exists">>}))
          ELSE Step(r, "hash", "user.findUnique(username)", NoResult)
    /\ StoreUnchangedStep
    /\ UNCHANGED last

RaceHash(r) ==
    /\ inflight[r].pc = "hash"
    /\ Step(r, "create", "", NoResult)
    /\ StoreUnchangedStep
    /\ UNCHANGED last

RaceCreate(r) ==
    /\ inflight[r].pc = "create"
    /\ LET data == AddNewUserSchema(AddNewUser_rawData(inflight[r].form)).data
           created == user_create(store, AddNewUser_createData(data))
       IN /\ users' = created.st.users
          /\ passwords' = created.st.passwords
          /\ roles' = created.st.roles
          /\ userRoles' = created.st.userRoles
          /\ nextId' = created.st.nextId
          /\ Step(r, "done", "user.create",
                  IF created.ok THEN ReturnsUndefined ELSE UnhandledFault)
    /\ UNCHANGED last

NextRace ==
    \E r \in Requests :
        \/ RaceStart(r)
        \/ RaceEmailLookup(r)
        \/ RaceUsernameLookup(r)
        \/ RaceHash(r)
        \/ RaceCreate(r)

SpecRace == Init /\ [][NextRace]_vars

\* =============================================================== claims
Handled == last.handler # "idle"
Authorized == requireUserWithRole(last.pre, last.caller, "admin")
StoreUnchanged == store = last.pre
RolesOf(s, id) == {p[2] : p \in {q \in s.userRoles : q[1] = id}}
CreateActions == {"add-new-users.action", "add-new-users-plain.action"}
RoleIntents == {"create-role", "delete-role"}

\* A request to a create endpoint that takes the user-creation path.
CreateUserRequest ==
    /\ last.handler \in CreateActions
    /\ Authorized
    /\ last.form.intent \notin RoleIntents

CreateUserValid ==
    /\ CreateUserRequest
    /\ AddNewUserSchema(AddNewUser_rawData(last.form)).success

EditUserRequest == last.handler = "edit-user.action" /\ Authorized

\* C1: a request whose caller is unauthenticated or lacks the admin role
\* makes no store call in any handler, changes nothing and ends with an
\* authorization failure.
C1_GateFirst ==
    (Handled /\ ~Authorized) =>
        /\ last.calls = <<>>
        /\ StoreUnchanged
        /\ last.result = AuthorizationFailure

\* An authenticated caller without the admin role was turned away by a
\* write handler.
C1_Witness ==
    /\ last.handler = "edit-user.action"
    /\ \E u \in last.pre.users : u.id = last.caller
    /\ ~Authorized
    /\ last.result = AuthorizationFailure

\* C2: after any sequence of non-overlapping create and edit requests no two
\* user rows share an email or a username, compared case-insensitively, and
\* every stored email and username is lowercase.
C2_UniqueLowercase ==
    /\ \A u \in users :
        u.email = toLowerCase(u.email) /\ u.username = toLowerCase(u.username)
    /\ \A u1 \in users, u2 \in users :
        u1 # u2 =>
            /\ toLowerCase(u1.email) # toLowerCase(u2.email)
            /\ toLowerCase(u1.username) # toLowerCase(u2.username)

\* Two users exist, the second created from mixed-case input, and an edit
\* has just rewritten a row from mixed-case input.
C2_Witness ==
    /\ Cardinality(users) = 2
    /\ last.handler = "edit-user.action"
    /\ last.result.kind = "redirect"
    /\ last.form.email = "A@B.com"
    /\ last.form.username = "Bob"

\* C3: a create-user request that passes schema validation, whose lowercased
\* email and username are unused and whose role names all exist, adds exactly
\* one user row: lowercased email and username, the input name, exactly one
\* credential holding the hash of the password (not the plaintext), and
\* exactly the submitted roles.
C3_CreateAddsOneUser ==
    LET f == last.form
        pre == last.pre
        new == users \ pre.users
    IN (/\ CreateUserValid
        /\ user_findUnique_email(pre, toLowerCase(f.email)) = {}
        /\ user_findUnique_username(pre, toLowerCase(f.username)) = {}
        /\ Range(f.roles) \subseteq pre.roles) =>
           /\ pre.users \subseteq users
           /\ Cardinality(new) = 1
           /\ \A u \in new :
                /\ u.email = toLowerCase(f.email)
                /\ u.username = toLowerCase(f.username)
                /\ u.name = f.name
                /\ {p \in passwords : p.userId = u.id}
                     = {[userId |-> u.id, hash |-> getPasswordHash(f.password)]}
                /\ \A p \in passwords : p.hash # f.password
                /\ RolesOf(store, u.id) = Range(f.roles)
                /\ \A v \in pre.users : v.id # u.id

\* A user was created from mixed-case input with two roles.
C3_Witness ==
    /\ CreateUserValid
    /\ last.form.email = "A@B.com"
    /\ last.form.username = "Bob"
    /\ last.form.roles = <<"admin", "editor">>
    /\ Cardinality(users) = Cardinality(last.pre.users) + 1

\* The statement of C4 as written: every create-user request whose email is
\* that of an existing user, whatever its other fields, is answered with the
\* email conflict error.
C4_AsWritten ==
    LET f == last.form
    IN (/\ CreateUserRequest
        /\ \E u \in last.pre.users :
              toLowerCase(u.email) = toLowerCase(f.email)) =>
           /\ last.result =
                Errors({<<"email", "A user with this email already exists">>})
           /\ users = last.pre.users

\* C4 (amended): a create-user request that passes schema validation and
\* whose email equals, case-insensitively, the email of an existing user is
\* answered with status 400 and the error 'A user with this email already
\* exists' on field email, and no user row is created; a request that fails
\* schema validation creates no user row either.
C4_EmailConflictRejected ==
    LET f == last.form
    IN (/\ CreateUserRequest
        /\ \E u \in last.pre.users :
              toLowerCase(u.email) = toLowerCase(f.email)) =>
           /\ StoreUnchanged
           /\ last.result.status = 400
           /\ CreateUserValid =>
                last.result =
                  Errors({<<"email", "A user with this email already exists">>})

\* The payload that created a user is submitted again, unchanged.
C4_Witness ==
    /\ CreateUserValid
    /\ last.form.email = "A@B.com"
    /\ \E u \in last.pre.users :
        /\ u.id # 1
        /\ u.email = toLowerCase(last.form.email)
        /\ u.username = toLowerCase(last.form.username)
        /\ u.name = last.form.name
        /\ RolesOf(last.pre, u.id) = Range(last.form.roles)
    /\ last.result.kind = "errors"

\* C5: a successful edit replaces the target's role associations by exactly
\* the submitted role names (none submitted: none left; only `admin`: exactly
\* one); the associations of every other user are unchanged.
C5_EditReplacesRoles ==
    (EditUserRequest /\ last.result.kind = "redirect") =>
        /\ RolesOf(store, last.userId) = Range(last.form.roles)
        /\ last.form.roles = <<>> => RolesOf(store, last.userId) = {}
        /\ last.form.roles = <<"admin">> =>
             Cardinality({p \in userRoles : p[1] = last.userId}) = 1
        /\ \A id \in UserIds \ {last.userId} :
             RolesOf(store, id) = RolesOf(last.pre, id)

\* An edit submitted without roles stripped a user of the roles it held,
\* while another user kept its own.
C5_Witness ==
    /\ EditUserRequest
    /\ last.result.kind = "redirect"
    /\ last.form.roles = <<>>
    /\ RolesOf(last.pre, last.userId) # {}
    /\ RolesOf(store, last.userId) = {}
    /\ \E id \in UserIds \ {last.userId} : RolesOf(store, id) # {}

\* C6: the roles `admin` and `user` exist after any sequence of requests,
\* for any caller and any submitted roleName (other casings included); a
\* delete-role request naming `admin` or `user` gets status 400 with 'Cannot
\* delete system roles' and deletes nothing.
C6_SystemRolesKept ==
    /\ {"admin", "user"} \subseteq roles
    /\ (/\ last.handler = "add-new-users.action"
        /\ last.form.intent = "delete-role"
        /\ last.form.roleName \in {"admin", "user"}) =>
           /\ roles = last.pre.roles
           /\ Authorized =>
                /\ last.result =
                     Errors({<<"role", "Cannot delete system roles">>})
                /\ last.result.status = 400
                /\ StoreUnchanged

\* An administrator asked to delete the role `user` and was refused.
C6_Witness ==
    /\ last.handler = "add-new-users.action"
    /\ Authorized
    /\ last.form.intent = "delete-role"
    /\ last.form.roleName = "user"
    /\ last.result.kind = "errors"

\* C7: a create-role request lowercases roleName; a missing or empty name is
\* rejected with 'Role name is required', an existing lowercased name with
\* 'This role already exists' and status 400, and otherwise exactly one role
\* with the lowercased name is inserted and the result is success with
\* formType `role`.  Role names stay unique up to case.
C7_CreateRole ==
    LET n == last.form.roleName
        pre == last.pre
    IN /\ \A r1 \in roles, r2 \in roles :
            toLowerCase(r1) = toLowerCase(r2) => r1 = r2
       /\ (/\ last.handler = "add-new-users.action"
           /\ Authorized
           /\ last.form.intent = "create-role") =>
              IF n = null \/ n = ""
              THEN /\ last.result = Errors({<<"role", "Role name is required">>})
                   /\ StoreUnchanged
              ELSE IF toLowerCase(n) \in pre.roles
              THEN /\ last.result =
                        Errors({<<"role", "This role already exists">>})
                   /\ last.result.status = 400
                   /\ StoreUnchanged
              ELSE /\ last.result = Success("role")
                   /\ roles = pre.roles \cup {toLowerCase(n)}
                   /\ Cardinality(roles) = Cardinality(pre.roles) + 1
                   /\ store = [pre EXCEPT !.roles = roles]

\* `editor` exists and a request to create `EDITOR` was rejected.
C7_Witness ==
    /\ last.handler = "add-new-users.action"
    /\ Authorized
    /\ last.form.intent = "create-role"
    /\ last.form.roleName = "EDITOR"
    /\ "editor" \in last.pre.roles
    /\ last.result = Errors({<<"role", "This role already exists">>})
    /\ roles = last.pre.roles

\* C8: every failing request ends in a structured response of the handler
\* (field errors with status 400, or 404 for a missing edit target), never
\* in an unhandled fault of a store call.
C8_NoUnhandledFault ==
    Handled =>
        \/ last.result.kind \in {"data", "success", "redirect", "undefined"}
        \/ last.result.kind = "authorization-failure"
        \/ last.result.kind = "errors" /\ last.result.status = 400
        \/ last.result.kind = "thrown-response" /\ last.result.status = 404

\* C9: a create-user or edit-user submission without any `roles` field is
\* validated to the role list ["user"], and the written user is associated
\* with exactly the role `user`.
C9_RolesDefaultToUser ==
    /\ (CreateUserValid /\ last.form.roles = <<>>) =>
          /\ AddNewUserSchema(AddNewUser_rawData(last.form)).data.roles
               = <<"user">>
          /\ \A u \in users \ last.pre.users :
               RolesOf(store, u.id) = {"user"}
    /\ (/\ EditUserRequest
        /\ last.form.roles = <<>>
        /\ EditUserSchema(EditUser_rawData(last.form)).success) =>
          /\ EditUserSchema(EditUser_rawData(last.form)).data.roles
               = <<"user">>
          /\ last.result.kind = "redirect" =>
               RolesOf(store, last.userId) = {"user"}

\* C10: a create-user request that inserted the user returns a redirect to
\* /admin/successful-user-created, never an empty result.
C10_CreateRedirects ==
    (/\ last.handler \in CreateActions
     /\ last.form.intent \notin RoleIntents
     /\ users # last.pre.users) =>
        last.result = redirect("/admin/successful-user-created")

\* ---------------------------------------------- lookups of a user write
UserWriteRequest == CreateUserRequest \/ EditUserRequest
IsEdit == last.handler = "edit-user.action"
EmailLookup ==
    IF IsEdit THEN "user.findFirst(email)" ELSE "user.findUnique(email)"
UsernameLookup ==
    IF IsEdit THEN "user.findFirst(username)" ELSE "user.findUnique(username)"
EmailMessage ==
    IF IsEdit THEN "This email is already taken"
    ELSE "A user with this email already exists"
UsernameMessage ==
    IF IsEdit THEN "This username is already taken"
    ELSE "A user with this username already exists"

\* Another user (any user, for a creation) holds the submitted email / username.
EmailConflict ==
    \E u \in last.pre.users :
        /\ IsEdit => u.id # last.userId
        /\ toLowerCase(u.email) = toLowerCase(last.form.email)
UsernameConflict ==
    \E u \in last.pre.users :
        /\ IsEdit => u.id # last.userId
        /\ toLowerCase(u.username) = toLowerCase(last.form.username)

\* C12: in the create-user and edit-user actions the email lookup precedes
\* the username lookup and the first violation ends the request: when both
\* conflict the username lookup is not performed and the response of the
\* lookups is the error on `email` only; a username conflict error is
\* returned only after an email lookup that found no conflict.
C12_EmailBeforeUsername ==
    UserWriteRequest =>
        /\ \A i \in 1..Len(last.calls) :
             last.calls[i] = UsernameLookup =>
                i = 2 /\ last.calls[1] = EmailLookup /\ ~EmailConflict
        /\ (EmailConflict /\ UsernameConflict) =>
             /\ UsernameLookup \notin Range(last.calls)
             /\ <<"username", UsernameMessage>> \notin last.result.errors
             /\ last.calls # <<>> =>
                  /\ last.calls = <<EmailLookup>>
                  /\ last.result = Errors({<<"email", EmailMessage>>})
        /\ <<"username", UsernameMessage>> \in last.result.errors =>
             /\ ~EmailConflict
             /\ last.calls = <<EmailLookup, UsernameLookup>>
             /\ last.result = Errors({<<"username", UsernameMessage>>})

\* An edit took both the email and the username of another user and was
\* answered with the email error after one lookup.
C12_Witness ==
    /\ EditUserRequest
    /\ EmailConflict
    /\ UsernameConflict
    /\ last.calls = <<"user.findFirst(email)">>
    /\ last.result = Errors({<<"email", "This email is already taken">>})

\* C13: the edit-user lookups exclude the edited user: an edit keeping the
\* target's own email and username (in any casing) is not rejected as a
\* conflict and succeeds with a redirect to /admin/all-users, while an edit
\* whose lowercased email or username belongs to another user is rejected
\* with 'This email is already taken' / 'This username is already taken'
\* and status 400.
C13_EditExcludesSelf ==
    LET f == last.form
        valid == EditUserSchema(EditUser_rawData(f)).success
    IN (EditUserRequest /\ valid) =>
        /\ (\E u \in last.pre.users :
              /\ u.id = last.userId
              /\ u.email = toLowerCase(f.email)
              /\ u.username = toLowerCase(f.username)) =>
             last.result = redirect("/admin/all-users")
        /\ EmailConflict =>
             last.result = Errors({<<"email", "This email is already taken">>})
        /\ (~EmailConflict /\ UsernameConflict) =>
             last.result =
               Errors({<<"username", "This username is already taken">>})

WriteActions == CreateActions \cup {"edit-user.action"}

\* C14: a write request answered with `errors` and status 400 leaves users,
\* credentials, roles and role associations as they were; a create-role or
\* delete-role request never creates or modifies a user or credential; a
\* request with any other intent never adds or removes a role row.
C14_ErrorsLeaveStore ==
    last.handler \in WriteActions =>
        /\ (last.result.kind = "errors" /\ last.result.status = 400) =>
             /\ users = last.pre.users
             /\ passwords = last.pre.passwords
             /\ roles = last.pre.roles
             /\ userRoles = last.pre.userRoles
        /\ last.form.intent \in RoleIntents =>
             users = last.pre.users /\ passwords = last.pre.passwords
        /\ last.form.intent \notin RoleIntents => roles = last.pre.roles

\* With two users stored, an edit failed schema validation on `name`.
C14_Witness ==
    /\ EditUserRequest
    /\ Cardinality(last.pre.users) = 2
    /\ last.result.kind = "errors"
    /\ last.result.status = 400
    /\ <<"name", "Name is required">> \in last.result.errors
    /\ StoreUnchanged

PassedLookups(r) ==
    /\ Len(inflight[r].calls) >= 2
    /\ inflight[r].calls[1] = "user.findUnique(email)"
    /\ inflight[r].calls[2] = "user.findUnique(username)"
Inserted(r) == inflight[r].result = ReturnsUndefined
SameEmail(r1, r2) ==
    /\ inflight[r1].pc # "start"
    /\ inflight[r2].pc # "start"
    /\ inflight[r1].form.email # null
    /\ toLowerCase(inflight[r1].form.email)
         = toLowerCase(inflight[r2].form.email)

\* C11: two create-user requests with the same email (up to case), interleaved
\* at the store calls, can both pass the email and username lookups; with the
\* store enforcing the unique constraint on User.email at most one of the two
\* inserts succeeds and the store never holds two users with that email.
C11_RaceKeepsEmailUnique ==
    /\ \A u1 \in users, u2 \in users :
          u1 # u2 => toLowerCase(u1.email) # toLowerCase(u2.email)
    /\ \A r1 \in Requests, r2 \in Requests :
          (r1 # r2 /\ SameEmail(r1, r2)) =>
              /\ ~(Inserted(r1) /\ Inserted(r2))
              /\ Cardinality({u \in users :
                    u.email = toLowerCase(inflight[r1].form.email)}) <= 1

\* Both requests, with emails differing in case only, passed both lookups;
\* one inserted its user and the other's insert was refused by the store.
C11_Witness ==
    /\ inflight["first"].form.email = "a@b.com"
    /\ inflight["second"].form.email = "A@B.com"
    /\ PassedLookups("first")
    /\ PassedLookups("second")
    /\ Inserted("first")
    /\ inflight["second"].calls[Len(inflight["second"].calls)] = "user.create"
    /\ inflight["second"].result = UnhandledFault
    /\ Cardinality({u \in users : u.email = "a@b.com"}) = 1

====
